---- MODULE Spec2Model ----
(***************************************************************************)
(* The booking-conflict engine of sandbox-scheduler: the request handlers  *)
(* of backend/routes/bookings.js over the Booking model, and the           *)
(* availability handler over lib/generateSlotsForRange.js, as a state      *)
(* machine.  Time is counted in minutes.  Every `await` of a handler is a  *)
(* point where other handlers may run, so each handler is cut into one     *)
(* action per store call.                                                  *)
(***************************************************************************)
EXTENDS Integers, Sequences, FiniteSets, TLC

VARIABLES
  now,        \* the wall clock, in minutes
  providers,  \* the Provider collection: id -> scheduleConfig
  bookings,   \* the Booking collection: a sequence, a booking's _id is its index
  pc,         \* per handler: the store call it is waiting for
  req,        \* per handler: the request it serves
  doc,        \* per handler: the document it holds in memory
  accesses,   \* per handler: the store calls it has issued so far
  response    \* the response most recently sent, with the request it answers

vars == <<now, providers, bookings, pc, req, doc, accesses, response>>

(***************************************************************************)
(* Bounds of the model.                                                    *)
(***************************************************************************)
MaxBookings == 2
MaxTicks == 1
TickSteps == {5}

Procs == {"h1", "h2"}

(***************************************************************************)
(* Program constants.                                                      *)
(***************************************************************************)
MinDurationMinutes == 5
MaxDurationMinutes == 480
DefaultMinNoticeMinutes == 0
DefaultMaxDaysAhead == 365
MinutesPerDay == 1440

Null == -1

(***************************************************************************)
(* Stores.                                                                 *)
(***************************************************************************)
ProviderIds == {"p1", "p2"}
PatientIds == {"u1"}

\* Ids that pass isValidObjectId: the stored ones and two well-formed ids
\* that name no record.
ObjectIds == ProviderIds \cup PatientIds \cup {"p9", "u9"}

\* Provider p1 works in UTC on weekdays from 01:00 to 02:10 in slots of 30
\* minutes (a remainder of 10 minutes), provider p2 in Honolulu on Sundays and
\* Mondays from 15:00 to 16:00, with an extra window on one Sunday and a
\* blackout on the Monday after it.  Times of day are minutes after
\* midnight, dates are days after the Monday of minute 0.
InitialProviders ==
  [id \in ProviderIds |->
     IF id = "p1"
     THEN [timezone |-> "UTC", minNoticeMinutes |-> 60, maxDaysAhead |-> 1,
           recurringRules |->
             <<[daysOfWeek |-> {1, 2, 3, 4, 5}, startTime |-> 60, endTime |-> 130,
                slotDuration |-> 30]>>,
           exceptions |-> <<>>]
     ELSE [timezone |-> "Pacific/Honolulu", minNoticeMinutes |-> 0, maxDaysAhead |-> 365,
           recurringRules |->
             <<[daysOfWeek |-> {1, 7}, startTime |-> 900, endTime |-> 960,
                slotDuration |-> 30]>>,
           exceptions |->
             <<[date |-> 0 - 1, available |-> TRUE, startTime |-> 930, endTime |-> 1000],
               [date |-> 0, available |-> FALSE, startTime |-> Null, endTime |-> Null]>>]]

isValidObjectId(id) == id \in ObjectIds

\* JavaScript's `x || d` on a number: 0 (like undefined) is falsy.
OrDefault(x, d) == IF x = 0 THEN d ELSE x

\* Offset of the zone from UTC, in minutes (both zones have no DST).
ZoneOffset(tz) == IF tz = "Pacific/Honolulu" THEN 0 - 600 ELSE 0

\* DateTime.fromISO(s, { zone }): an ISO string is malformed, carries its own
\* offset (t is then the instant), or is a bare wall-clock time that is read
\* in the zone.
fromISO(s, tz) ==
  [isValid |-> s.form # "bad",
   ts |-> IF s.form = "local" THEN s.t - ZoneOffset(tz) ELSE s.t]

\* validateBody(bookingSchema): every field is required, a string and has
\* to pass its validator; DateTime.fromISO(value) without a zone.
validateBody(r) ==
  /\ isValidObjectId(r.providerId)
  /\ isValidObjectId(r.patientId)
  /\ fromISO(r.start, "UTC").isValid
  /\ fromISO(r.end, "UTC").isValid

\* The overlap test with closed intervals, as `$lte` and `$gte` would give it.
IntervalsOverlapClosed(aStart, aEnd, bStart, bEnd) == aStart <= bEnd /\ aEnd >= bStart

\* The strict half-open test of the overlap query.
IntervalsOverlap(aStart, aEnd, bStart, bEnd) == aStart < bEnd /\ aEnd > bStart

\* The overlap query without the status filter: bookings of every status
\* match.
findOverlappingAnyStatus(store, providerId, slotStart, slotEnd) ==
  {i \in 1..Len(store) :
     /\ store[i].provider = providerId
     /\ IntervalsOverlap(store[i].start, store[i].end, slotStart, slotEnd)}

\* Booking.findOne({provider, status: 'booked', start < slotEnd, end > slotStart}):
\* the ids of the matching bookings (findOne returns any one of them).
findOverlapping(store, providerId, slotStart, slotEnd) ==
  {i \in 1..Len(store) :
     /\ store[i].provider = providerId
     /\ store[i].status = "booked"
     /\ IntervalsOverlap(store[i].start, store[i].end, slotStart, slotEnd)}

NoReq == [op |-> "none", providerId |-> "", patientId |-> "",
          start |-> [form |-> "bad", t |-> 0], end |-> [form |-> "bad", t |-> 0],
          id |-> 0]
NoDoc == [id |-> 0, provider |-> "", patient |-> "", start |-> 0, end |-> 0,
          status |-> "", cancelledAt |-> Null, now |-> Null]
NoResponse == [request |-> NoReq, status |-> 0, code |-> "NONE", message |-> "",
               booking |-> 0, slots |-> <<>>, accesses |-> <<>>]

\* The HTTP status errorHandler sends for an error made by createAppError,
\* and the status of the two successes.
StatusOf(code) ==
  CASE code = "OK" -> 200
    [] code = "CREATED" -> 201
    [] code = "VALIDATION_ERROR" -> 400
    [] code = "NOT_FOUND" -> 404
    [] code = "CONFLICT" -> 409
    [] OTHER -> 500

\* A stored document that loses the end of the request for start + 30.
StoredDefaultEnd(d) == [provider |-> d.provider, patient |-> d.patient, start |-> d.start,
                        end |-> d.start + 30, status |-> d.status,
                        cancelledAt |-> d.cancelledAt]

Stored(d) == [provider |-> d.provider, patient |-> d.patient, start |-> d.start,
              end |-> d.end, status |-> d.status, cancelledAt |-> d.cancelledAt]

\* A handler ends: the response to its request goes out and the handler's
\* memory is dropped.
Send(p, answer) ==
  /\ response' = answer
  /\ pc' = [pc EXCEPT ![p] = "idle"]
  /\ req' = [req EXCEPT ![p] = NoReq]
  /\ doc' = [doc EXCEPT ![p] = NoDoc]
  /\ accesses' = [accesses EXCEPT ![p] = <<>>]

Answer(r, code, message, bookingId, log) ==
  [request |-> r, status |-> StatusOf(code), code |-> code, message |-> message,
   booking |-> bookingId, slots |-> <<>>, accesses |-> log]

Respond(p, code, message, bookingId, log) ==
  Send(p, Answer(req[p], code, message, bookingId, log))

Init ==
  /\ now = 0
  /\ providers = InitialProviders
  /\ bookings = <<>>
  /\ pc = [p \in Procs |-> "idle"]
  /\ req = [p \in Procs |-> NoReq]
  /\ doc = [p \in Procs |-> NoDoc]
  /\ accesses = [p \in Procs |-> <<>>]
  /\ response = NoResponse

(***************************************************************************)
(* POST /api/bookings                                                      *)
(***************************************************************************)
\* The checks between Provider.findById and Booking.findOne, in the order of
\* the code; `t` is DateTime.now() of that continuation.
minNoticeTime(provider, t) ==
  t + OrDefault(provider.minNoticeMinutes, DefaultMinNoticeMinutes)

horizon(provider, t) ==
  t + OrDefault(provider.maxDaysAhead, DefaultMaxDaysAhead) * MinutesPerDay

\* The range test with `<` for `<=`: an empty interval passes.
EndBeforeStart(slotStart, slotEnd) == slotEnd < slotStart

EndNotAfterStart(slotStart, slotEnd) == slotEnd <= slotStart

\* The notice test with `<=` for `<`: a start on the bound is turned down.
TooSoonInclusive(slotStart, earliest) == slotStart <= earliest

TooSoon(slotStart, earliest) == slotStart < earliest

\* The horizon test with `>=`: a start on the horizon is too far ahead.
TooFarAheadInclusive(slotStart, latest) == slotStart >= latest

TooFarAhead(slotStart, latest) == slotStart > latest

checkRequest(provider, r, t) ==
  LET slotStart == fromISO(r.start, provider.timezone)
      slotEnd == fromISO(r.end, provider.timezone)
  IN  IF ~slotStart.isValid \/ ~slotEnd.isValid
        THEN [code |-> "VALIDATION_ERROR", message |-> "Invalid start or end time format"]
      ELSE IF EndNotAfterStart(slotStart.ts, slotEnd.ts)
        THEN [code |-> "VALIDATION_ERROR", message |-> "End time must be after start time"]
      ELSE IF TooSoon(slotStart.ts, minNoticeTime(provider, t))
        THEN [code |-> "CONFLICT", message |-> "Booking requires notice"]
      ELSE IF TooFarAhead(slotStart.ts, horizon(provider, t))
        THEN [code |-> "CONFLICT", message |-> "Booking too many days ahead"]
      ELSE [code |-> "OK", message |-> ""]

\* bookingSchema.pre('save'): the duration check of the model.
preSaveDuration(d) ==
  LET durationMinutes == d.end - d.start
  IN  IF durationMinutes < MinDurationMinutes
        THEN "Booking duration must be at least 5 minutes"
      ELSE IF durationMinutes > MaxDurationMinutes
        THEN "Booking duration cannot exceed 8 hours"
      ELSE ""

\* The handlers in flight that may still insert a booking.
Creating == {p \in Procs : req[p].op = "createBooking"}

\* validateBody runs first; the handler then issues Provider.findById.  The
\* model takes no further request once MaxBookings bookings are stored or
\* about to be.
CreateStart(p, r) ==
  /\ pc[p] = "idle"
  /\ Len(bookings) + Cardinality(Creating) < MaxBookings
  /\ IF validateBody(r)
       THEN /\ pc' = [pc EXCEPT ![p] = "findProvider"]
            /\ req' = [req EXCEPT ![p] = r]
            /\ accesses' = [accesses EXCEPT ![p] = <<"Provider.findById">>]
            /\ response' = NoResponse
            /\ UNCHANGED doc
       ELSE /\ response' = Answer(r, "VALIDATION_ERROR", "validateBody", 0, <<>>)
            /\ UNCHANGED <<pc, req, doc, accesses>>
  /\ UNCHANGED <<now, providers, bookings>>

\* Provider.findById answers; the handler parses and checks the interval and
\* issues the overlap query.
CreateFindProvider(p) ==
  /\ pc[p] = "findProvider"
  /\ IF req[p].providerId \notin DOMAIN providers
       THEN Respond(p, "NOT_FOUND", "Provider not found", 0, accesses[p])
       ELSE LET provider == providers[req[p].providerId]
                verdict == checkRequest(provider, req[p], now)
            IN  IF verdict.code # "OK"
                  THEN Respond(p, verdict.code, verdict.message, 0, accesses[p])
                  ELSE /\ pc' = [pc EXCEPT ![p] = "findOverlap"]
                       /\ doc' = [doc EXCEPT ![p] =
                                    [id |-> 0,
                                     provider |-> req[p].providerId,
                                     patient |-> req[p].patientId,
                                     start |-> fromISO(req[p].start, provider.timezone).ts,
                                     end |-> fromISO(req[p].end, provider.timezone).ts,
                                     status |-> "booked",
                                     cancelledAt |-> Null,
                                     now |-> Null]]
                       /\ accesses' = [accesses EXCEPT ![p] = Append(@, "Booking.findOne")]
                       /\ UNCHANGED <<req, response>>
  /\ UNCHANGED <<now, providers, bookings>>

\* Booking.findOne answers; the handler rejects or issues Booking.create.
CreateFindOverlap(p) ==
  /\ pc[p] = "findOverlap"
  /\ IF findOverlapping(bookings, doc[p].provider, doc[p].start, doc[p].end) # {}
       THEN Respond(p, "CONFLICT", "This time slot is already booked", 0, accesses[p])
       ELSE /\ pc' = [pc EXCEPT ![p] = "create"]
            /\ accesses' = [accesses EXCEPT ![p] = Append(@, "Booking.create")]
            /\ UNCHANGED <<req, doc, response>>
  /\ UNCHANGED <<now, providers, bookings>>

\* Booking.create: the pre('save') hook, then the insert.  The error of the
\* hook is a plain Error, which errorHandler answers with INTERNAL_ERROR.
CreateInsert(p) ==
  /\ pc[p] = "create"
  /\ IF preSaveDuration(doc[p]) # ""
       THEN /\ Respond(p, "INTERNAL_ERROR", preSaveDuration(doc[p]), 0, accesses[p])
            /\ UNCHANGED bookings
       ELSE /\ bookings' = Append(bookings, Stored(doc[p]))
            /\ Respond(p, "CREATED", "", Len(bookings) + 1, accesses[p])
  /\ UNCHANGED <<now, providers>>

(***************************************************************************)
(* PATCH /api/bookings/:id/cancel                                          *)
(***************************************************************************)
\* The ids a client may send: 0 is not an ObjectId, the others are, whether
\* or not a booking has that id.
BookingIds == 0..(MaxBookings + 1)

\* The status test left out: every booking reads as not yet cancelled.
AlreadyCancelledNever(b) == FALSE

\* The status test of the cancel handler.
AlreadyCancelled(b) == b.status = "cancelled"

CancelReq(id) == [NoReq EXCEPT !.op = "cancelBooking", !.id = id]

CancelStart(p, id) ==
  /\ pc[p] = "idle"
  /\ IF id # 0
       THEN /\ pc' = [pc EXCEPT ![p] = "findBooking"]
            /\ req' = [req EXCEPT ![p] = CancelReq(id)]
            /\ accesses' = [accesses EXCEPT ![p] = <<"Booking.findById">>]
            /\ response' = NoResponse
            /\ UNCHANGED doc
       ELSE /\ response' = Answer(CancelReq(id), "NOT_FOUND", "Booking not found", 0, <<>>)
            /\ UNCHANGED <<pc, req, doc, accesses>>
  /\ UNCHANGED <<now, providers, bookings>>

\* Booking.findById answers; the handler checks the status, changes the
\* document in memory and issues save().
CancelFind(p) ==
  /\ pc[p] = "findBooking"
  /\ IF req[p].id \notin 1..Len(bookings)
       THEN Respond(p, "NOT_FOUND", "Booking not found", 0, accesses[p])
       ELSE IF AlreadyCancelled(bookings[req[p].id])
         THEN Respond(p, "CONFLICT", "Booking is already cancelled", req[p].id, accesses[p])
         ELSE /\ pc' = [pc EXCEPT ![p] = "save"]
              /\ doc' = [doc EXCEPT ![p] =
                           [id |-> req[p].id,
                            provider |-> bookings[req[p].id].provider,
                            patient |-> bookings[req[p].id].patient,
                            start |-> bookings[req[p].id].start,
                            end |-> bookings[req[p].id].end,
                            status |-> "cancelled",
                            cancelledAt |-> now,
                            now |-> Null]]
              /\ accesses' = [accesses EXCEPT ![p] = Append(@, "Booking.save")]
              /\ UNCHANGED <<req, response>>
  /\ UNCHANGED <<now, providers, bookings>>

\* A save that also ends the booking at the time of the cancel.
savedCancelEndsNow(stored, d) ==
  [stored EXCEPT !.status = d.status, !.cancelledAt = d.cancelledAt, !.end = d.cancelledAt]

\* The stored document after save(): the modified paths, status and
\* cancelledAt, are written.
savedCancel(stored, d) ==
  [stored EXCEPT !.status = d.status, !.cancelledAt = d.cancelledAt]

\* booking.save(): the pre('save') hook, then the update of the modified
\* paths (status, cancelledAt) of the stored document.
CancelSave(p) ==
  /\ pc[p] = "save"
  /\ IF preSaveDuration(doc[p]) # ""
       THEN /\ Respond(p, "INTERNAL_ERROR", preSaveDuration(doc[p]), doc[p].id, accesses[p])
            /\ UNCHANGED bookings
       ELSE /\ bookings' = [bookings EXCEPT ![doc[p].id] = savedCancel(@, doc[p])]
            /\ Respond(p, "OK", "", doc[p].id, accesses[p])
  /\ UNCHANGED <<now, providers>>

(***************************************************************************)
(* lib/generateSlotsForRange.js                                            *)
(***************************************************************************)
MaxRangeDays == 90
DefaultExceptionSlotMinutes == 30

\* The overlap test with `<=` and `>=`: touching intervals overlap.
overlapsClosed(slotStart, slotEnd, booking) ==
  slotStart <= booking.end /\ slotEnd >= booking.start

\* overlaps(slotStart, slotEnd, booking)
overlaps(slotStart, slotEnd, booking) ==
  slotStart < booking.end /\ slotEnd > booking.start

\* The duplicates removed by the start alone.
RECURSIVE removeDuplicateStarts(_)
removeDuplicateStarts(slots) ==
  IF slots = <<>>
    THEN <<>>
    ELSE LET last == slots[Len(slots)]
             front == SubSeq(slots, 1, Len(slots) - 1)
         IN  IF \E i \in 1..Len(front) : front[i].start = last.start
               THEN removeDuplicateStarts(front)
               ELSE Append(removeDuplicateStarts(front), last)

\* removeDuplicateSlots: the first slot of every `${start}-${end}` key stays.
RECURSIVE removeDuplicateSlots(_)
removeDuplicateSlots(slots) ==
  IF slots = <<>>
    THEN <<>>
    ELSE LET last == slots[Len(slots)]
             front == SubSeq(slots, 1, Len(slots) - 1)
             seen == \E i \in 1..Len(front) :
                       front[i].start = last.start /\ front[i].end = last.end
         IN  IF seen
               THEN removeDuplicateSlots(front)
               ELSE Append(removeDuplicateSlots(front), last)

\* Array.prototype.sort by start; the sort of V8 is stable.
RECURSIVE insertByStart(_, _)
insertByStart(sorted, slot) ==
  IF sorted = <<>>
    THEN <<slot>>
    ELSE IF sorted[Len(sorted)].start <= slot.start
      THEN Append(sorted, slot)
      ELSE Append(insertByStart(SubSeq(sorted, 1, Len(sorted) - 1), slot),
                  sorted[Len(sorted)])

\* The slots left in the order of their generation.
generationOrder(slots) == slots

RECURSIVE sortByStart(_)
sortByStart(slots) ==
  IF slots = <<>>
    THEN <<>>
    ELSE insertByStart(sortByStart(SubSeq(slots, 1, Len(slots) - 1)), slots[Len(slots)])

\* validateInputs(tz, fromISO, toISO): the message of the Error it throws, or
\* "" when it returns.  `daysDiff` is a fraction, so the limit is compared in
\* minutes.
validateInputs(tz, from, to) ==
  LET fromDT == fromISO(from, "UTC")
      toDT == fromISO(to, "UTC")
  IN  IF ~fromDT.isValid THEN "Invalid fromISO date"
      ELSE IF ~toDT.isValid THEN "Invalid toISO date"
      ELSE IF toDT.ts <= fromDT.ts THEN "End date must be after start date"
      ELSE IF toDT.ts - fromDT.ts > MaxRangeDays * MinutesPerDay
        THEN "Date range cannot exceed 90 days"
      ELSE ""

\* The weekday counted from 0.
WeekdayFromZero(day) == day % 7

\* day.weekday of a provider-local date: 1 = Monday .. 7 = Sunday.
Weekday(day) == (day % 7) + 1

\* The provider-local date of an instant (startOf('day') and endOf('day')
\* of the instant set to the zone).
LocalDay(t, tz) == (t + ZoneOffset(tz)) \div MinutesPerDay

\* DateTime.fromISO(`${dateStr}T${time}`, { zone: tz }) as an instant.
LocalInstant(day, time, tz) == day * MinutesPerDay + time - ZoneOffset(tz)

\* Booking.find({provider, status: 'booked', start < utcFetchEnd,
\* end > utcFetchStart}).lean(), in the order of the collection.  The fetch
\* range runs from the day before the first local day to the end of the day
\* after the last one.
fetchBookings(store, providerId, tz, fromT, toT) ==
  LET utcFetchStart == LocalInstant(LocalDay(fromT, tz) - 1, 0, tz)
      utcFetchEnd == LocalInstant(LocalDay(toT, tz) + 2, 0, tz)
      ids == {i \in 1..Len(store) :
                /\ store[i].provider = providerId
                /\ store[i].status = "booked"
                /\ store[i].start < utcFetchEnd
                /\ store[i].end > utcFetchStart}
      RECURSIVE pick(_)
      pick(i) ==
        IF i > Len(store) THEN <<>>
        ELSE IF i \in ids
          THEN <<[id |-> i, start |-> store[i].start, end |-> store[i].end]>> \o pick(i + 1)
          ELSE pick(i + 1)
  IN  pick(1)

\* bookings.find(booking => overlaps(...)): the first one, 0 for none.
firstOverlapping(found, slotStart, slotEnd) ==
  LET hits == {i \in 1..Len(found) : overlaps(slotStart, slotEnd, found[i])}
  IN  IF hits = {} THEN 0
      ELSE found[CHOOSE i \in hits : \A j \in hits : i <= j].id

\* The end of a slot taken 30 minutes after its start, whatever the duration.
slotEndDefault(cursor, slotDuration) == cursor + 30

\* cursor.plus({ minutes: slotDuration })
slotEndOf(cursor, slotDuration) == cursor + slotDuration

\* The loop test `cursor < end`: a slot that starts before the end is
\* emitted whole.
slotStartsBefore(cursor, slotDuration, windowEnd) == cursor < windowEnd

\* The test of the two loops: a whole slot still fits before the end.
slotFits(cursor, slotDuration, windowEnd) == cursor + slotDuration <= windowEnd

\* The notice and horizon test with `>=` for `>`: a start on the horizon is
\* dropped.
outsideBookingWindowStrict(slotStart, earliest, latest) ==
  slotStart < earliest \/ slotStart >= latest

\* The notice and horizon test of a candidate slot.
outsideBookingWindow(slotStart, earliest, latest) ==
  slotStart < earliest \/ slotStart > latest

\* The two `while (cursor.plus({ minutes: slotDuration }) <= end)` loops:
\* the slots of one window, those outside notice and horizon skipped.
RECURSIVE windowSlots(_, _, _, _, _, _, _)
windowSlots(cursor, windowEnd, slotDuration, earliest, latest, found, isException) ==
  IF slotFits(cursor, slotDuration, windowEnd)
    THEN LET rest == windowSlots(cursor + slotDuration, windowEnd, slotDuration,
                                 earliest, latest, found, isException)
         IN  IF outsideBookingWindow(cursor, earliest, latest)
               THEN rest
               ELSE <<[start |-> cursor,
                       end |-> slotEndOf(cursor, slotDuration),
                       isBooked |-> firstOverlapping(found, cursor,
                                                     slotEndOf(cursor, slotDuration)) # 0,
                       booking |-> firstOverlapping(found, cursor,
                                                    slotEndOf(cursor, slotDuration)),
                       isException |-> isException]>> \o rest
    ELSE <<>>

\* The slots of one recurring rule on one local date.
ruleSlots(rule, day, tz, earliest, latest, found) ==
  LET dayStart == LocalInstant(day, rule.startTime, tz)
      dayEnd == LocalInstant(day, rule.endTime, tz)
  IN  IF Weekday(day) \notin rule.daysOfWeek THEN <<>>
      ELSE IF rule.slotDuration = 0 THEN <<>>
      ELSE IF dayStart >= dayEnd THEN <<>>
      ELSE windowSlots(dayStart, dayEnd, rule.slotDuration, earliest, latest, found, FALSE)

\* The duration of exception slots without the look at the first rule.
exceptionSlotDurationFixed(rules) == DefaultExceptionSlotMinutes

\* (rules[0] && rules[0].slotDuration) || 30
exceptionSlotDuration(rules) ==
  IF Len(rules) > 0 /\ rules[1].slotDuration # 0
    THEN rules[1].slotDuration
    ELSE DefaultExceptionSlotMinutes

\* The slots of one availability exception (it has both times).
exceptionSlots(exception, rules, day, tz, earliest, latest, found) ==
  LET exStart == LocalInstant(day, exception.startTime, tz)
      exEnd == LocalInstant(day, exception.endTime, tz)
      slotDuration == exceptionSlotDuration(rules)
  IN  IF exStart >= exEnd THEN <<>>
      ELSE windowSlots(exStart, exEnd, slotDuration, earliest, latest, found, TRUE)

\* The blackout looked for in the first exception of the date only.
blackoutFirstOfDate(exceptions, day) ==
  \E i \in 1..Len(exceptions) :
    /\ exceptions[i].date = day
    /\ exceptions[i].available = FALSE
    /\ \A j \in 1..(i - 1) : exceptions[j].date # day

\* exceptions.find(e => e.date === dateStr && e.available === false)
blackoutException(exceptions, day) ==
  \E i \in 1..Len(exceptions) :
    exceptions[i].date = day /\ exceptions[i].available = FALSE

\* One pass of the loop over the days: nothing on a blackout date, else the
\* slots of the rules in their order and then those of the exceptions.
daySlots(config, day, earliest, latest, found) ==
  LET rules == config.recurringRules
      exceptions == config.exceptions
      tz == config.timezone
      blackout == blackoutException(exceptions, day)
      RECURSIVE ofRules(_)
      ofRules(i) ==
        IF i > Len(rules) THEN <<>>
        ELSE ruleSlots(rules[i], day, tz, earliest, latest, found) \o ofRules(i + 1)
      RECURSIVE ofExceptions(_)
      ofExceptions(i) ==
        IF i > Len(exceptions) THEN <<>>
        ELSE IF /\ exceptions[i].date = day
                /\ exceptions[i].available = TRUE
                /\ exceptions[i].startTime # Null
                /\ exceptions[i].endTime # Null
          THEN exceptionSlots(exceptions[i], rules, day, tz, earliest, latest, found)
                 \o ofExceptions(i + 1)
          ELSE ofExceptions(i + 1)
  IN  IF blackout THEN <<>> ELSE ofRules(1) \o ofExceptions(1)

\* generateSlotsForRange after validateInputs and the fetch of the bookings:
\* `t` is the now the function took before the fetch.
generateSlotsForRange(config, fromT, toT, t, found) ==
  LET earliestBookingTime == t + OrDefault(config.minNoticeMinutes, DefaultMinNoticeMinutes)
      latestBookingTime ==
        t + OrDefault(config.maxDaysAhead, DefaultMaxDaysAhead) * MinutesPerDay
      lastDay == LocalDay(toT, config.timezone)
      RECURSIVE days(_)
      days(day) ==
        IF day > lastDay THEN <<>>
        ELSE daySlots(config, day, earliestBookingTime, latestBookingTime, found)
               \o days(day + 1)
  IN  sortByStart(removeDuplicateSlots(days(LocalDay(fromT, config.timezone))))

(***************************************************************************)
(* GET /api/providers/:id/availability                                     *)
(***************************************************************************)
\* The id and the two query parameters are checked first; the handler then
\* issues Provider.findById.
AvailStart(p, q) ==
  /\ pc[p] = "idle"
  /\ IF ~isValidObjectId(q.providerId)
       THEN /\ response' = Answer(q, "NOT_FOUND", "Provider not found", 0, <<>>)
            /\ UNCHANGED <<pc, req, doc, accesses>>
       ELSE IF q.start.form = "missing" \/ q.end.form = "missing"
         THEN /\ response' = [Answer(q, "INTERNAL_ERROR",
                                     "Query parameters from and to are required", 0, <<>>)
                                EXCEPT !.status = 400]
              /\ UNCHANGED <<pc, req, doc, accesses>>
         ELSE /\ pc' = [pc EXCEPT ![p] = "availProvider"]
              /\ req' = [req EXCEPT ![p] = q]
              /\ accesses' = [accesses EXCEPT ![p] = <<"Provider.findById">>]
              /\ response' = NoResponse
              /\ UNCHANGED doc
  /\ UNCHANGED <<now, providers, bookings>>

\* Provider.findById answers; generateSlotsForRange validates its inputs,
\* returns at once for a provider without rules, takes now and issues
\* Booking.find.  The Error of validateInputs is a plain one.
AvailFindProvider(p) ==
  /\ pc[p] = "availProvider"
  /\ IF req[p].providerId \notin DOMAIN providers
       THEN Respond(p, "NOT_FOUND", "Provider not found", 0, accesses[p])
       ELSE LET config == providers[req[p].providerId]
                invalid == validateInputs(config.timezone, req[p].start, req[p].end)
            IN  IF invalid # ""
                  THEN Respond(p, "INTERNAL_ERROR", invalid, 0, accesses[p])
                ELSE IF Len(config.recurringRules) = 0
                  THEN Respond(p, "OK", "", 0, accesses[p])
                ELSE /\ pc' = [pc EXCEPT ![p] = "availBookings"]
                     /\ doc' = [doc EXCEPT ![p] =
                                  [NoDoc EXCEPT !.provider = req[p].providerId,
                                                !.start = fromISO(req[p].start, "UTC").ts,
                                                !.end = fromISO(req[p].end, "UTC").ts,
                                                !.now = now]]
                     /\ accesses' = [accesses EXCEPT ![p] = Append(@, "Booking.find")]
                     /\ UNCHANGED <<req, response>>
  /\ UNCHANGED <<now, providers, bookings>>

\* Booking.find answers; the slots are computed and sent.
AvailFetch(p) ==
  /\ pc[p] = "availBookings"
  /\ LET config == providers[doc[p].provider]
         found == fetchBookings(bookings, doc[p].provider, config.timezone,
                                doc[p].start, doc[p].end)
     IN  Send(p, [Answer(req[p], "OK", "", 0, accesses[p])
                    EXCEPT !.slots = generateSlotsForRange(config, doc[p].start,
                                                           doc[p].end, doc[p].now, found)])
  /\ UNCHANGED <<now, providers, bookings>>

(***************************************************************************)
(* The clock.                                                              *)
(***************************************************************************)
Tick ==
  /\ \E d \in TickSteps :
       /\ now < MaxTicks * d
       /\ now' = now + d
  /\ UNCHANGED <<providers, bookings, pc, req, doc, accesses, response>>


(***************************************************************************)
(* The requests of the clients.                                            *)
(***************************************************************************)
MkReq(providerId, patientId, form, s, e) ==
  [op |-> "createBooking", providerId |-> providerId, patientId |-> patientId,
   start |-> [form |-> form, t |-> s], end |-> [form |-> form, t |-> e], id |-> 0]

\* Three intervals of provider p1 that are equal to, overlap, contain or
\* touch one another, with starts on both sides of its notice bound (60 at
\* 0:00, 65 at 0:05).
Overlapping ==
  {MkReq("p1", "u1", "utc", 60, 65),
   MkReq("p1", "u1", "utc", 60, 90),
   MkReq("p1", "u1", "utc", 65, 95)}

\* With them, durations on both sides of both duration limits and one start
\* on the horizon of p1 (1445 at 0:05).
IntervalRequests ==
  Overlapping
    \cup {MkReq("p1", "u1", "utc", 65, 65 + d) : d \in {0, 4, 481}}
    \cup {MkReq("p1", "u1", "utc", 60, 60 + d) : d \in {4, 480}}
    \cup {MkReq("p1", "u1", "utc", 1445, 1475)}

\* One interval under every kind of provider id, of patient id and of time
\* format.
IdRequests ==
  {MkReq(providerId, "u1", "utc", 65, 95) : providerId \in {"p9", "bad"}}
    \cup {MkReq("p1", patientId, "utc", 65, 95) : patientId \in {"u9", "bad"}}
    \cup {MkReq("p2", "u1", form, 65, 95) : form \in {"local", "bad"}}
    \cup {MkReq("p9", "u1", "utc", 65, 65)}

Requests == IntervalRequests \cup IdRequests

\* The requests of the handlers that run concurrently: three intervals of
\* one provider that overlap or touch, and one request for each early
\* rejection.
RaceRequests ==
  Overlapping
    \cup {MkReq("p9", "u1", "utc", 65, 95),
          MkReq("p1", "bad", "utc", 65, 95),
          MkReq("p1", "u1", "utc", 65, 65)}

\* The availability queries: a range of one day, of exactly 90 days and of a
\* minute more, an empty and a reversed range, a malformed and a missing
\* bound for one provider, and a range of one day for every kind of
\* provider id.
MkQuery(providerId, from, to) ==
  [op |-> "computeAvailability", providerId |-> providerId, patientId |-> "",
   start |-> from, end |-> to, id |-> 0]

QueryBounds ==
  {<<[form |-> "utc", t |-> 0], [form |-> "utc", t |-> t]>> : t \in {0, 1440, 129600, 129601}}
    \cup {<<[form |-> "utc", t |-> 1440], [form |-> "utc", t |-> 0]>>,
          <<[form |-> "bad", t |-> 0], [form |-> "utc", t |-> 1440]>>,
          <<[form |-> "utc", t |-> 0], [form |-> "missing", t |-> 0]>>}

Queries ==
  {MkQuery("p1", b[1], b[2]) : b \in QueryBounds}
    \cup {MkQuery(providerId, [form |-> "utc", t |-> 0], [form |-> "utc", t |-> 1440]) :
            providerId \in {"p2", "p9", "bad"}}

Client == "h1"

\* The next store call of a booking handler answers.
Step(p) ==
  \/ CreateFindProvider(p)
  \/ CreateFindOverlap(p)
  \/ CreateInsert(p)
  \/ CancelFind(p)
  \/ CancelSave(p)

\* The next store call of the availability handler answers.
StepAvail(p) ==
  \/ AvailFindProvider(p)
  \/ AvailFetch(p)

\* Handlers interleave at every store call.
Next ==
  \/ \E p \in Procs : \E r \in RaceRequests : CreateStart(p, r)
  \/ \E p \in Procs : \E id \in BookingIds : CancelStart(p, id)
  \/ \E p \in Procs : Step(p)
  \/ Tick

Spec == Init /\ [][Next]_vars

\* One call at a time: the calls of one client that awaits every answer.
NextSeq ==
  \/ \E r \in Requests : CreateStart(Client, r)
  \/ \E id \in BookingIds : CancelStart(Client, id)
  \/ \E q \in Queries : AvailStart(Client, q)
  \/ Step(Client)
  \/ StepAvail(Client)
  \/ Tick

SpecSeq == Init /\ [][NextSeq]_vars

(***************************************************************************)
(* Slot generation over the schedules a provider can be given              *)
(* (PUT /api/providers/:id/config) and the bookings it can have.           *)
(***************************************************************************)
Rule(days, startTime, endTime, slotDuration) ==
  [daysOfWeek |-> days, startTime |-> startTime, endTime |-> endTime,
   slotDuration |-> slotDuration]

ExceptionOn(date, available, startTime, endTime) ==
  [date |-> date, available |-> available, startTime |-> startTime, endTime |-> endTime]

Config(tz, notice, days, rules, exceptions) ==
  [timezone |-> tz, minNoticeMinutes |-> notice, maxDaysAhead |-> days,
   recurringRules |-> rules, exceptions |-> exceptions]

\* Day 0 is a Monday, day 1 a Tuesday.
\* Two rules whose slots lie on both sides of the notice bound (60 at 0:00)
\* and of the horizon (1440 at 0:00), the first with a remainder of 10, and
\* an exception window across the notice bound.
NoticeConfig ==
  Config("UTC", 60, 1,
         <<Rule({1, 2, 3, 4, 5}, 60, 130, 30), Rule({2}, 0, 60, 30)>>,
         <<ExceptionOn(0, TRUE, 40, 100)>>)

\* Rules that repeat and overlap one another, with different durations; on
\* day 0 an exception without times and one with a window; on day 1 a
\* blackout next to an exception with times.
OverlapConfig ==
  Config("UTC", 0, 365,
         <<Rule({1, 2}, 60, 120, 30), Rule({1}, 60, 125, 20), Rule({1}, 60, 90, 30)>>,
         <<ExceptionOn(0, TRUE, Null, Null),
           ExceptionOn(0, TRUE, 200, 270),
           ExceptionOn(1, TRUE, 200, 260),
           ExceptionOn(1, FALSE, Null, Null)>>)

\* A first rule for another weekday, of another duration than the rule of
\* the day, and an exception window next to the rule slots.
ExceptionConfig ==
  Config("UTC", 0, 365,
         <<Rule({3}, 60, 120, 20), Rule({1}, 60, 120, 30)>>,
         <<ExceptionOn(0, TRUE, 200, 250)>>)

\* No rule at all, and an exception window.
NoRuleConfig ==
  Config("UTC", 0, 365, <<>>, <<ExceptionOn(0, TRUE, 60, 130)>>)

\* The schedule of the unit tests: Monday to Friday 09:00-17:00 in slots of
\* 30 minutes, a notice of an hour and a horizon of 30 days.
BusinessConfig ==
  Config("UTC", 60, 30, <<Rule({1, 2, 3, 4, 5}, 540, 1020, 30)>>, <<>>)

\* The same with the exception window 10:00-12:00 on day 0.
BusinessExceptionConfig ==
  Config("UTC", 60, 30, <<Rule({1, 2, 3, 4, 5}, 540, 1020, 30)>>,
         <<ExceptionOn(0, TRUE, 600, 720)>>)

SlotConfigs ==
  {NoticeConfig, OverlapConfig, ExceptionConfig, NoRuleConfig, BusinessConfig,
   BusinessExceptionConfig}

Doc(providerId, start, end, status, cancelledAt) ==
  [provider |-> providerId, patient |-> "u1", start |-> start, end |-> end,
   status |-> status, cancelledAt |-> cancelledAt]

\* Bookings that overlap the slots [60, 90) and [90, 120), touch them, are
\* cancelled, or belong to the other provider.
SlotStores ==
  {<<>>,
   <<Doc("p1", 90, 120, "booked", Null)>>,
   <<Doc("p1", 60, 90, "cancelled", 0), Doc("p2", 60, 90, "booked", Null)>>,
   <<Doc("p1", 100, 130, "booked", Null), Doc("p1", 60, 65, "booked", Null)>>}

InitSlots ==
  /\ now = 0
  /\ \E config \in SlotConfigs : providers = [InitialProviders EXCEPT !["p1"] = config]
  /\ bookings \in SlotStores
  /\ pc = [p \in Procs |-> "idle"]
  /\ req = [p \in Procs |-> NoReq]
  /\ doc = [p \in Procs |-> NoDoc]
  /\ accesses = [p \in Procs |-> <<>>]
  /\ response = NoResponse

\* Ranges of one and of two UTC days and a range whose two bounds are the
\* same date, for both providers.
SlotQueries ==
  {MkQuery(providerId, [form |-> "utc", t |-> 0], [form |-> "utc", t |-> t]) :
     providerId \in {"p1", "p2"}, t \in {0, 1439, 1440}}

NextSlots ==
  \/ \E q \in SlotQueries : AvailStart(Client, q)
  \/ StepAvail(Client)
  \/ Tick

SpecSlots == InitSlots /\ [][NextSlots]_vars

(***************************************************************************)
(* GET /api/schedule/available                                             *)
(***************************************************************************)
\* isValidDateString: a YYYY-MM-DD string; the model writes it as the day
\* number.
isValidDateString(d) == d.form = "date"

\* generateSlots(startDateTime, endDateTime, slotMinutes): a slot for every
\* cursor before the end.
RECURSIVE generateSlots(_, _, _)
generateSlots(startDateTime, endDateTime, slotMinutes) ==
  IF startDateTime < endDateTime
    THEN <<[start |-> startDateTime, end |-> startDateTime + slotMinutes,
            status |-> "available"]>>
           \o generateSlots(startDateTime + slotMinutes, endDateTime, slotMinutes)
    ELSE <<>>

\* One pass of the day loop: the slots of the matching rules are pushed,
\* then the first exception of the date is applied.
scheduleDay(config, day, allSlots) ==
  LET tz == config.timezone
      RECURSIVE ofRules(_)
      ofRules(r) ==
        IF r > Len(config.recurringRules) THEN <<>>
        ELSE LET rule == config.recurringRules[r]
                 dayStart == LocalInstant(day, rule.startTime, tz)
                 dayEnd == LocalInstant(day, rule.endTime, tz)
             IN  (IF Weekday(day) \in rule.daysOfWeek /\ dayStart < dayEnd
                    THEN generateSlots(dayStart, dayEnd, rule.slotDuration)
                    ELSE <<>>)
                   \o ofRules(r + 1)
      pushed == allSlots \o ofRules(1)
      onDate == {k \in 1..Len(config.exceptions) : config.exceptions[k].date = day}
      first == CHOOSE k \in onDate : \A other \in onDate : k <= other
      exception == config.exceptions[first]
      notOfDay(slot) == LocalDay(slot.start, tz) # day
  IN  IF onDate = {} THEN pushed
      ELSE IF ~exception.available THEN SelectSeq(pushed, notOfDay)
      ELSE IF exception.startTime # Null /\ exception.endTime # Null
        THEN LET excStart == LocalInstant(day, exception.startTime, tz)
                 excEnd == LocalInstant(day, exception.endTime, tz)
             IN  IF excStart < excEnd
                   THEN pushed \o generateSlots(excStart, excEnd,
                                                exceptionSlotDuration(config.recurringRules))
                   ELSE pushed
      ELSE pushed

\* The slots built for the days startDay..endDay and filtered by the notice
\* and the horizon of the now `t`.
scheduleSlots(config, startDay, endDay, t) ==
  LET RECURSIVE build(_, _)
      build(day, allSlots) ==
        IF day > endDay THEN allSlots
        ELSE build(day + 1, scheduleDay(config, day, allSlots))
      minNotice == t + OrDefault(config.minNoticeMinutes, DefaultMinNoticeMinutes)
      latest == t + OrDefault(config.maxDaysAhead, DefaultMaxDaysAhead) * MinutesPerDay
      inBookingWindow(slot) == slot.start >= minNotice /\ slot.start <= latest
  IN  SelectSeq(build(startDay, <<>>), inBookingWindow)

\* The slots marked with the booked bookings that start inside the range
\* (Interval.overlaps), sorted by start.
markBooked(slots, store, providerId, tz, startDay, endDay) ==
  LET found == {i \in 1..Len(store) :
                  /\ store[i].provider = providerId
                  /\ store[i].status = "booked"
                  /\ store[i].start >= LocalInstant(startDay, 0, tz)
                  /\ store[i].start < LocalInstant(endDay + 1, 0, tz)}
      isBooked(slot) ==
        \E i \in found : store[i].end > slot.start /\ store[i].start < slot.end
  IN  sortByStart([k \in 1..Len(slots) |->
                     [slots[k] EXCEPT !.status =
                        IF isBooked(slots[k]) THEN "booked" ELSE "available"]])

\* The query parameters are checked first; the handler then issues
\* Provider.findById.
ScheduleStart(p, q) ==
  /\ pc[p] = "idle"
  /\ IF q.start.form = "missing" \/ q.end.form = "missing"
       THEN /\ response' = Answer(q, "VALIDATION_ERROR",
                                  "providerId, startDate, and endDate query parameters are required",
                                  0, <<>>)
            /\ UNCHANGED <<pc, req, doc, accesses>>
       ELSE IF ~isValidObjectId(q.providerId)
         THEN /\ response' = Answer(q, "VALIDATION_ERROR", "Invalid provider ID format", 0, <<>>)
              /\ UNCHANGED <<pc, req, doc, accesses>>
       ELSE IF ~isValidDateString(q.start) \/ ~isValidDateString(q.end)
         THEN /\ response' = Answer(q, "VALIDATION_ERROR",
                                    "Date format must be YYYY-MM-DD", 0, <<>>)
              /\ UNCHANGED <<pc, req, doc, accesses>>
         ELSE /\ pc' = [pc EXCEPT ![p] = "scheduleProvider"]
              /\ req' = [req EXCEPT ![p] = q]
              /\ accesses' = [accesses EXCEPT ![p] = <<"Provider.findById">>]
              /\ response' = NoResponse
              /\ UNCHANGED doc
  /\ UNCHANGED <<now, providers, bookings>>

\* Provider.findById answers; the handler builds and filters the slots with
\* the now of that moment and issues Booking.find.
ScheduleFindProvider(p) ==
  /\ pc[p] = "scheduleProvider"
  /\ IF req[p].providerId \notin DOMAIN providers
       THEN Respond(p, "NOT_FOUND", "Provider not found", 0, accesses[p])
       ELSE IF Len(providers[req[p].providerId].recurringRules) = 0
         THEN Respond(p, "OK", "No schedule configuration found for this provider",
                      0, accesses[p])
       ELSE IF req[p].end.t < req[p].start.t
         THEN Respond(p, "VALIDATION_ERROR", "End date must be after start date",
                      0, accesses[p])
       ELSE /\ pc' = [pc EXCEPT ![p] = "scheduleBookings"]
            /\ doc' = [doc EXCEPT ![p] =
                         [NoDoc EXCEPT !.provider = req[p].providerId,
                                       !.start = req[p].start.t,
                                       !.end = req[p].end.t,
                                       !.now = now]]
            /\ accesses' = [accesses EXCEPT ![p] = Append(@, "Booking.find")]
            /\ UNCHANGED <<req, response>>
  /\ UNCHANGED <<now, providers, bookings>>

\* Booking.find answers; the slots are marked, sorted and sent.
ScheduleFetch(p) ==
  /\ pc[p] = "scheduleBookings"
  /\ LET config == providers[doc[p].provider]
         slots == scheduleSlots(config, doc[p].start, doc[p].end, doc[p].now)
     IN  Send(p, [Answer(req[p], "OK", "", 0, accesses[p])
                    EXCEPT !.slots = markBooked(slots, bookings, doc[p].provider,
                                                config.timezone, doc[p].start, doc[p].end)])
  /\ UNCHANGED <<now, providers, bookings>>

\* The queries: one date, two dates, a reversed range, a malformed and a
\* missing date for one provider, and one date for every kind of provider id.
MkScheduleQuery(providerId, startDate, endDate) ==
  [op |-> "scheduleAvailable", providerId |-> providerId, patientId |-> "",
   start |-> startDate, end |-> endDate, id |-> 0]

ScheduleQueries ==
  {MkScheduleQuery("p1", [form |-> "date", t |-> b[1]], [form |-> "date", t |-> b[2]]) :
     b \in {<<0, 0>>, <<0, 1>>, <<1, 0>>}}
    \cup {MkScheduleQuery("p1", [form |-> form, t |-> 0], [form |-> "date", t |-> 0]) :
            form \in {"bad", "missing"}}
    \cup {MkScheduleQuery(providerId, [form |-> "date", t |-> 0], [form |-> "date", t |-> 0]) :
            providerId \in {"p2", "p9", "bad"}}

NextSchedule ==
  \/ \E q \in ScheduleQueries : ScheduleStart(Client, q)
  \/ ScheduleFindProvider(Client)
  \/ ScheduleFetch(Client)
  \/ Tick

SpecSchedule == InitSlots /\ [][NextSchedule]_vars

(***************************************************************************)
(* The handlers over a booking of every status the schema declares.        *)
(***************************************************************************)
Statuses == {"booked", "cancelled", "completed", "no-show"}

\* One stored booking of provider p1, of any status; a cancelled one has its
\* cancelledAt.
StatusStores ==
  {<<Doc("p1", 60, 90, status, IF status = "cancelled" THEN 0 ELSE Null)>> :
     status \in Statuses}

InitStatus ==
  /\ now = 0
  /\ providers = InitialProviders
  /\ bookings \in StatusStores
  /\ pc = [p \in Procs |-> "idle"]
  /\ req = [p \in Procs |-> NoReq]
  /\ doc = [p \in Procs |-> NoDoc]
  /\ accesses = [p \in Procs |-> <<>>]
  /\ response = NoResponse

NextStatus ==
  \/ \E r \in RaceRequests : CreateStart(Client, r)
  \/ \E id \in BookingIds : CancelStart(Client, id)
  \/ Step(Client)
  \/ Tick

SpecStatus == InitStatus /\ [][NextStatus]_vars

(***************************************************************************)
(* Properties.                                                             *)
(***************************************************************************)
Booked(i) == bookings[i].status = "booked"

SameProvider(i, j) == bookings[i].provider = bookings[j].provider

\* Booking i shares time with [s, e).
Clashes(i, s, e) == bookings[i].start < e /\ bookings[i].end > s

\* The booked bookings of a provider that share time with [s, e).
BookedClashes(providerId, s, e) ==
  {i \in 1..Len(bookings) :
     bookings[i].provider = providerId /\ Booked(i) /\ Clashes(i, s, e)}

\* The handler of p answers with its next step.
Answers(p) == pc[p] # "idle" /\ pc'[p] = "idle"

\* C1: for every provider, no two stored bookings with status booked
\* overlap, after any interleaving of createBooking and cancelBooking calls.
C1_NoBookedOverlap ==
  \A i, j \in 1..Len(bookings) :
    (i # j /\ SameProvider(i, j) /\ Booked(i) /\ Booked(j))
      => ~Clashes(i, bookings[j].start, bookings[j].end)

\* C2: of two createBooking calls for the identical interval of one
\* provider, the one that answers while the booking of the other is stored
\* and booked receives CONFLICT.
C2_SecondOfIdenticalPairConflicts ==
  [][\A p \in Procs :
       (/\ Answers(p)
        /\ req[p].op = "createBooking"
        /\ pc[p] \in {"findOverlap", "create"}
        /\ \E i \in 1..Len(bookings) :
             /\ bookings[i].provider = doc[p].provider
             /\ Booked(i)
             /\ bookings[i].start = doc[p].start
             /\ bookings[i].end = doc[p].end)
         => response'.code = "CONFLICT"]_vars

\* The request the last response answers, and what it asks for.
Answered == response.request

AnsweredCreate == Answered.op = "createBooking"

AnsweredCancel == Answered.op = "cancelBooking"

\* C3: one call at a time: a createBooking request that has passed the
\* interval and notice/horizon checks is answered CONFLICT iff a booked
\* booking of its provider shares time with it (start < end' and end >
\* start'); without one, and with a duration inside the limits, it is
\* stored, also when it touches a booking at an endpoint.
C3_ConflictIffBookedOverlap ==
  [][\A p \in Procs :
       (/\ req[p].op = "createBooking"
        /\ pc[p] \in {"findOverlap", "create"}
        /\ pc'[p] # pc[p])
         => LET clash == BookedClashes(doc[p].provider, doc[p].start, doc[p].end) # {}
                inLimits == /\ doc[p].end - doc[p].start >= 5
                            /\ doc[p].end - doc[p].start <= 480
            IN  /\ (Answers(p) /\ response'.code = "CONFLICT") <=> clash
                /\ (~clash /\ inLimits /\ pc[p] = "create")
                     => /\ response'.code = "CREATED"
                        /\ Len(bookings') = Len(bookings) + 1]_vars

\* A request is answered CONFLICT for a booked booking that it overlaps
\* partially.
C3_Witness ==
  /\ AnsweredCreate
  /\ response.code = "CONFLICT"
  /\ \E i \in 1..Len(bookings) :
       /\ Booked(i)
       /\ bookings[i].provider = Answered.providerId
       /\ bookings[i].start < Answered.start.t
       /\ Answered.start.t < bookings[i].end
       /\ bookings[i].end < Answered.end.t

\* C4: a cancelBooking call that reads its booking as booked stores status
\* cancelled and a cancelledAt; one that reads it as cancelled is answered
\* CONFLICT and leaves the store as it is.
C4_CancelBookedOrConflict ==
  [][\A p \in Procs :
       (/\ req[p].op = "cancelBooking"
        /\ pc'[p] # pc[p]
        /\ req[p].id \in 1..Len(bookings))
         => /\ (pc[p] = "findBooking" /\ bookings[req[p].id].status = "cancelled")
                 => /\ Answers(p)
                    /\ response'.code = "CONFLICT"
                    /\ bookings' = bookings
            /\ (pc[p] = "findBooking" /\ bookings[req[p].id].status = "booked")
                 => pc'[p] = "save"
            /\ pc[p] = "save"
                 => /\ response'.code = "OK"
                    /\ bookings'[req[p].id].status = "cancelled"
                    /\ bookings'[req[p].id].cancelledAt # Null
                    /\ bookings'[req[p].id].cancelledAt <= now]_vars

\* A second cancelBooking of a booking is answered CONFLICT, the booking
\* being cancelled with the cancelledAt of the first.
C4_Witness ==
  /\ AnsweredCancel
  /\ response.code = "CONFLICT"
  /\ bookings[Answered.id].status = "cancelled"
  /\ bookings[Answered.id].cancelledAt # Null

\* C5: a createBooking request whose providerId or patientId is well-formed
\* and names no record is answered NOT_FOUND (and stores nothing).
C5_UnknownIdsNotFound ==
  (/\ AnsweredCreate
   /\ validateBody(Answered)
   /\ \/ Answered.providerId \notin DOMAIN providers
      \/ Answered.patientId \notin PatientIds)
    => response.code = "NOT_FOUND"

\* C6: a createBooking request with end after start and a duration below 5
\* or above 480 minutes, when it is not turned down for another reason
\* (NOT_FOUND, CONFLICT), is answered VALIDATION_ERROR.
C6_DurationValidationError ==
  (/\ AnsweredCreate
   /\ validateBody(Answered)
   /\ Answered.end.t > Answered.start.t
   /\ \/ Answered.end.t - Answered.start.t < 5
      \/ Answered.end.t - Answered.start.t > 480
   /\ response.code \notin {"NOT_FOUND", "CONFLICT"})
    => response.code = "VALIDATION_ERROR"

\* C7: a createBooking request that has passed the interval check is answered
\* CONFLICT if its start is before now + minNoticeMinutes or after now +
\* maxDaysAhead days, now being the clock at the check; a start on either
\* bound goes on to the overlap query.
C7_NoticeAndHorizon ==
  [][\A p \in Procs :
       (/\ pc[p] = "findProvider"
        /\ pc'[p] # pc[p]
        /\ req[p].providerId \in DOMAIN providers
        /\ fromISO(req[p].end, providers[req[p].providerId].timezone).ts
             > fromISO(req[p].start, providers[req[p].providerId].timezone).ts)
         => LET config == providers[req[p].providerId]
                startUTC == fromISO(req[p].start, config.timezone).ts
                outside == \/ startUTC < now + config.minNoticeMinutes
                           \/ startUTC > now + config.maxDaysAhead * 1440
            IN  IF outside
                  THEN Answers(p) /\ response'.code = "CONFLICT"
                  ELSE pc'[p] = "findOverlap"]_vars

\* A request whose start is exactly now + maxDaysAhead days has passed the
\* check.
C7_Witness ==
  \E p \in Procs :
    /\ pc[p] = "findOverlap"
    /\ doc[p].start = now + providers[doc[p].provider].maxDaysAhead * 1440

\* C8: createBooking checks end > start, then the duration, then notice and
\* horizon, then the overlap: a request with end after start and a duration
\* outside the limits is turned down for its duration, never with CONFLICT.
C8_DurationBeforeConflicts ==
  (/\ AnsweredCreate
   /\ validateBody(Answered)
   /\ Answered.providerId \in DOMAIN providers
   /\ Answered.end.t > Answered.start.t
   /\ \/ Answered.end.t - Answered.start.t < 5
      \/ Answered.end.t - Answered.start.t > 480)
    => response.code \notin {"CONFLICT", "CREATED"}

\* C9: a step of a handler leaves the Booking collection as it is, unless
\* it answers CREATED and adds one booking (booked, with the provider,
\* patient, start and end of the request) or answers OK to cancelBooking;
\* so a call answered VALIDATION_ERROR, NOT_FOUND or CONFLICT changed nothing.
C9_ErrorsChangeNothing ==
  [][\/ bookings' = bookings
     \/ \E p \in Procs :
          /\ Answers(p)
          /\ req[p].op = "createBooking"
          /\ response'.code = "CREATED"
          /\ bookings' = Append(bookings,
               [provider |-> req[p].providerId,
                patient |-> req[p].patientId,
                start |-> fromISO(req[p].start, providers[req[p].providerId].timezone).ts,
                end |-> fromISO(req[p].end, providers[req[p].providerId].timezone).ts,
                status |-> "booked",
                cancelledAt |-> Null])
     \/ \E p \in Procs :
          /\ Answers(p)
          /\ req[p].op = "cancelBooking"
          /\ response'.code = "OK"
          /\ Len(bookings') = Len(bookings)]_vars

\* A createBooking call is answered CONFLICT for a stored booking, which is
\* as it was stored.
C9_Witness ==
  /\ AnsweredCreate
  /\ response.code = "CONFLICT"
  /\ response.message = "This time slot is already booked"
  /\ Len(bookings) = 1
  /\ Booked(1)

\* The request fails validation: a malformed or missing bound, an end that
\* is not after the start, or an availability range of more than 90 days.
FailsValidation(r) ==
  /\ r.op \in {"createBooking", "computeAvailability"}
  /\ \/ r.start.form \in {"bad", "missing"}
     \/ r.end.form \in {"bad", "missing"}
     \/ r.end.t <= r.start.t
     \/ r.op = "computeAvailability" /\ r.end.t - r.start.t > 90 * 1440

AnsweredQuery == Answered.op = "computeAvailability"

AnsweredSlots == AnsweredQuery /\ response.code = "OK"

AnsweredConfig == providers[Answered.providerId]

Slots == response.slots

SlotIndex == 1..Len(response.slots)

\* The provider-local date of a returned slot.
DateOf(slot) == (slot.start + ZoneOffset(AnsweredConfig.timezone)) \div 1440

\* The provider-local dates of the answered range.
AnsweredDates ==
  ((Answered.start.t + ZoneOffset(AnsweredConfig.timezone)) \div 1440)
    .. ((Answered.end.t + ZoneOffset(AnsweredConfig.timezone)) \div 1440)

\* C11: computeAvailability with a well-formed range answers
\* VALIDATION_ERROR without slots when to <= from or to - from exceeds 90
\* days, NOT_FOUND when the provider is unknown, and neither for a known
\* provider and a range of exactly 90 days.
C11_RangeErrors ==
  (/\ AnsweredQuery
   /\ Answered.start.form = "utc"
   /\ Answered.end.form = "utc")
    => /\ (/\ Answered.providerId \in DOMAIN providers
           /\ \/ Answered.end.t <= Answered.start.t
              \/ Answered.end.t - Answered.start.t > 90 * 1440)
            => response.code = "VALIDATION_ERROR" /\ Slots = <<>>
       /\ (isValidObjectId(Answered.providerId) /\ Answered.providerId \notin DOMAIN providers)
            => response.code = "NOT_FOUND"
       /\ (/\ Answered.providerId \in DOMAIN providers
           /\ Answered.end.t - Answered.start.t = 90 * 1440)
            => response.code = "OK"

\* C12: no returned slot lies on a provider-local date that has an exception
\* with available = false.
C12_NoSlotOnBlackoutDate ==
  AnsweredSlots
    => \A i \in SlotIndex :
         ~\E k \in 1..Len(AnsweredConfig.exceptions) :
            /\ AnsweredConfig.exceptions[k].date = DateOf(Slots[i])
            /\ AnsweredConfig.exceptions[k].available = FALSE

\* Slots are returned for a range with a date that has a blackout, a
\* matching rule and, listed before the blackout, an exception with times.
C12_Witness ==
  /\ AnsweredSlots
  /\ Len(Slots) > 0
  /\ \E k, m \in 1..Len(AnsweredConfig.exceptions) :
       /\ m < k
       /\ AnsweredConfig.exceptions[k].available = FALSE
       /\ AnsweredConfig.exceptions[k].date \in AnsweredDates
       /\ AnsweredConfig.exceptions[m].date = AnsweredConfig.exceptions[k].date
       /\ AnsweredConfig.exceptions[m].available = TRUE
       /\ AnsweredConfig.exceptions[m].startTime # Null
       /\ \E r \in 1..Len(AnsweredConfig.recurringRules) :
            ((AnsweredConfig.exceptions[k].date % 7) + 1)
              \in AnsweredConfig.recurringRules[r].daysOfWeek

\* The booked bookings of the answered provider that share time with a slot.
BookedOver(slot) ==
  {b \in 1..Len(bookings) :
     /\ bookings[b].provider = Answered.providerId
     /\ bookings[b].status = "booked"
     /\ slot.start < bookings[b].end
     /\ slot.end > bookings[b].start}

\* C13: a returned slot has isBooked iff a booked booking of the provider
\* shares time with it (start < end' and end > start'), and it refers to a
\* booking, one of those, exactly when isBooked.
C13_BookedIffOverlap ==
  AnsweredSlots
    => \A i \in SlotIndex :
         /\ Slots[i].isBooked <=> BookedOver(Slots[i]) # {}
         /\ Slots[i].isBooked <=> Slots[i].booking # 0
         /\ Slots[i].isBooked => Slots[i].booking \in BookedOver(Slots[i])

\* One returned slot is booked, and another one, which ends where a booked
\* booking of the provider starts, is not.
C13_Witness ==
  /\ AnsweredSlots
  /\ \E i, j \in SlotIndex :
       /\ Slots[i].isBooked
       /\ ~Slots[j].isBooked
       /\ \E b \in 1..Len(bookings) :
            /\ bookings[b].provider = Answered.providerId
            /\ bookings[b].status = "booked"
            /\ bookings[b].start = Slots[j].end

\* The instant of a local time of day on a local date of a zone.
At(day, time, tz) == day * 1440 + time - ZoneOffset(tz)

\* The intervals [first + k * d, first + (k + 1) * d) that fit before last.
Stepping(first, last, d) ==
  {[start |-> first + k * d, end |-> first + (k + 1) * d] :
     k \in 0..(((last - first) \div d) - 1)}

\* The candidate slots of one rule on one local date.
RuleCandidates(rule, day, tz) ==
  IF ((day % 7) + 1) \in rule.daysOfWeek
    THEN Stepping(At(day, rule.startTime, tz), At(day, rule.endTime, tz), rule.slotDuration)
    ELSE {}

\* The duration of exception slots: that of the first configured rule, 30
\* minutes without one.
ExceptionDuration(config) ==
  IF Len(config.recurringRules) > 0 THEN config.recurringRules[1].slotDuration ELSE 30

\* The candidate slots of one exception on one local date.
ExceptionCandidates(e, config, day) ==
  IF e.date = day /\ e.available /\ e.startTime # Null /\ e.endTime # Null
    THEN Stepping(At(day, e.startTime, config.timezone), At(day, e.endTime, config.timezone),
                  ExceptionDuration(config))
    ELSE {}

HasBlackout(config, day) ==
  \E k \in 1..Len(config.exceptions) :
    config.exceptions[k].date = day /\ ~config.exceptions[k].available

\* The candidate slots of a provider on one local date.
RuleCandidatesOn(config, day) ==
  UNION {RuleCandidates(config.recurringRules[r], day, config.timezone) :
           r \in 1..Len(config.recurringRules)}

ExceptionCandidatesOn(config, day) ==
  UNION {ExceptionCandidates(config.exceptions[k], config, day) :
           k \in 1..Len(config.exceptions)}

CandidatesOn(config, day) ==
  IF HasBlackout(config, day)
    THEN {}
    ELSE RuleCandidatesOn(config, day) \cup ExceptionCandidatesOn(config, day)

\* The local dates of a range of instants in a zone.
DatesOf(from, to, tz) ==
  ((from + ZoneOffset(tz)) \div 1440) .. ((to + ZoneOffset(tz)) \div 1440)

Interval(slot) == [start |-> slot.start, end |-> slot.end]

Intervals(slots) == {Interval(slots[i]) : i \in 1..Len(slots)}

\* C14: the slots that computeAvailability returns start no earlier than
\* now + minNoticeMinutes and no later than now + maxDaysAhead days, for the
\* now the query took before it fetched the bookings, and every candidate
\* slot of the range inside both bounds is returned.
C14_NoticeHorizonFilter ==
  [][\A p \in Procs :
       (pc[p] = "availBookings" /\ pc'[p] = "idle")
         => LET config == providers[req[p].providerId]
                earliest == doc[p].now + config.minNoticeMinutes
                latest == doc[p].now + config.maxDaysAhead * 1440
                dates == DatesOf(req[p].start.t, req[p].end.t, config.timezone)
                inside == {c \in UNION {CandidatesOn(config, day) : day \in dates} :
                             earliest <= c.start /\ c.start <= latest}
            IN  /\ \A i \in 1..Len(response'.slots) :
                     /\ earliest <= response'.slots[i].start
                     /\ response'.slots[i].start <= latest
                /\ inside \subseteq Intervals(response'.slots)]_vars

\* The returned slots start on the notice bound and on the horizon of a now
\* that has passed since by the time of the answer; a rule slot after the
\* horizon is missing.
C14_Witness ==
  /\ AnsweredSlots
  /\ now > 0
  /\ \E i, j \in SlotIndex :
       /\ Slots[i].start = AnsweredConfig.minNoticeMinutes
       /\ Slots[j].start = AnsweredConfig.maxDaysAhead * 1440
  /\ \E c \in UNION {CandidatesOn(AnsweredConfig, day) : day \in AnsweredDates} :
       /\ c.start > AnsweredConfig.maxDaysAhead * 1440
       /\ c \notin Intervals(Slots)

\* The candidate slots of a set of local dates that pass the notice and
\* horizon filter of a query that took its now at t.
Inside(candidates, config, t) ==
  {c \in candidates :
     /\ t + config.minNoticeMinutes <= c.start
     /\ c.start <= t + config.maxDaysAhead * 1440}

RuleIntervals(slots) ==
  {Interval(slots[i]) : i \in {k \in 1..Len(slots) : ~slots[k].isException}}

\* C15: the slots that come from the rules are, for every rule and every
\* local date of the range whose weekday is in its daysOfWeek (and that has no
\* blackout), the intervals [startTime + k * d, startTime + (k + 1) * d) for
\* k = 0 .. floor((endTime - startTime) / d) - 1 that pass the filter; a
\* rule gives nothing on another weekday and nothing for a remainder.
C15_RuleSlots ==
  [][\A p \in Procs :
       (pc[p] = "availBookings" /\ pc'[p] = "idle")
         => LET config == providers[req[p].providerId]
                dates == {day \in DatesOf(req[p].start.t, req[p].end.t, config.timezone) :
                            ~HasBlackout(config, day)}
            IN  RuleIntervals(response'.slots)
                  = Inside(UNION {RuleCandidatesOn(config, day) : day \in dates},
                           config, doc[p].now)]_vars

\* Slots are returned for a provider with a rule whose window leaves a
\* remainder and a rule that does not apply on a date of the range.
C15_Witness ==
  /\ AnsweredSlots
  /\ RuleIntervals(Slots) # {}
  /\ \E r \in 1..Len(AnsweredConfig.recurringRules) :
       LET rule == AnsweredConfig.recurringRules[r]
       IN  /\ (rule.endTime - rule.startTime) % rule.slotDuration # 0
           /\ \E i \in SlotIndex : ((DateOf(Slots[i]) % 7) + 1) \in rule.daysOfWeek
  /\ \E r \in 1..Len(AnsweredConfig.recurringRules) :
       \E day \in AnsweredDates :
         ((day % 7) + 1) \notin AnsweredConfig.recurringRules[r].daysOfWeek

C17_ExceptionSlotsWithoutRules ==
  (AnsweredSlots /\ Len(AnsweredConfig.recurringRules) = 0)
    => \A day \in AnsweredDates :
         \A k \in 1..Len(AnsweredConfig.exceptions) :
           LET e == AnsweredConfig.exceptions[k]
           IN  (/\ e.date = day
                /\ e.available
                /\ e.startTime # Null
                /\ e.endTime # Null
                /\ ~HasBlackout(AnsweredConfig, day))
                 => \A c \in Stepping(At(day, e.startTime, AnsweredConfig.timezone),
                                      At(day, e.endTime, AnsweredConfig.timezone), 30) :
                      (/\ c.start >= now + AnsweredConfig.minNoticeMinutes
                       /\ c.start <= AnsweredConfig.maxDaysAhead * 1440)
                        => c \in Intervals(Slots)

\* C18: every distinct (start, end) pair among the filtered candidates of
\* the range is returned exactly once: no two returned slots share both
\* endpoints, and candidates that differ in an endpoint are all returned.
C18_EachPairOnce ==
  [][\A p \in Procs :
       (pc[p] = "availBookings" /\ pc'[p] = "idle")
         => LET config == providers[req[p].providerId]
                dates == DatesOf(req[p].start.t, req[p].end.t, config.timezone)
                inside == Inside(UNION {CandidatesOn(config, day) : day \in dates},
                                 config, doc[p].now)
            IN  /\ \A c \in inside :
                     Cardinality({i \in 1..Len(response'.slots) :
                                    Interval(response'.slots[i]) = c}) = 1
                /\ \A i, j \in 1..Len(response'.slots) :
                     Interval(response'.slots[i]) = Interval(response'.slots[j]) => i = j]_vars

\* Two rules of the provider give the same candidate on a date of the range,
\* and the answer holds slots with the same start and different ends and
\* slots that overlap partially.
C18_Witness ==
  /\ AnsweredSlots
  /\ \E r1, r2 \in 1..Len(AnsweredConfig.recurringRules) :
       /\ r1 # r2
       /\ \E day \in AnsweredDates :
            /\ ~HasBlackout(AnsweredConfig, day)
            /\ RuleCandidates(AnsweredConfig.recurringRules[r1], day, AnsweredConfig.timezone)
                 \cap RuleCandidates(AnsweredConfig.recurringRules[r2], day,
                                     AnsweredConfig.timezone) # {}
  /\ \E i, j \in SlotIndex : Slots[i].start = Slots[j].start /\ Slots[i].end # Slots[j].end
  /\ \E i, j \in SlotIndex : Slots[i].start < Slots[j].start /\ Slots[j].start < Slots[i].end

\* C19: a returned slot is as long as the slotDuration of a rule of its
\* weekday whose window holds it, or, for an exception slot, as the first
\* rule's slotDuration (30 minutes without a rule), inside the window of an
\* exception of its date.
C19_SlotLength ==
  AnsweredSlots
    => \A i \in SlotIndex :
         LET slot == Slots[i]
             day == DateOf(slot)
             tz == AnsweredConfig.timezone
         IN  IF slot.isException
               THEN /\ slot.end - slot.start = ExceptionDuration(AnsweredConfig)
                    /\ \E k \in 1..Len(AnsweredConfig.exceptions) :
                         LET e == AnsweredConfig.exceptions[k]
                         IN  /\ e.date = day
                             /\ e.available
                             /\ e.startTime # Null
                             /\ e.endTime # Null
                             /\ At(day, e.startTime, tz) <= slot.start
                             /\ slot.end <= At(day, e.endTime, tz)
               ELSE \E r \in 1..Len(AnsweredConfig.recurringRules) :
                      LET rule == AnsweredConfig.recurringRules[r]
                      IN  /\ ((day % 7) + 1) \in rule.daysOfWeek
                          /\ slot.end - slot.start = rule.slotDuration
                          /\ At(day, rule.startTime, tz) <= slot.start
                          /\ slot.end <= At(day, rule.endTime, tz)

\* The answer holds rule slots of two durations and an exception slot.
C19_Witness ==
  /\ AnsweredSlots
  /\ \E i, j \in SlotIndex :
       /\ ~Slots[i].isException
       /\ ~Slots[j].isException
       /\ Slots[i].end - Slots[i].start # Slots[j].end - Slots[j].start
  /\ \E i \in SlotIndex : Slots[i].isException

\* C20: the status of a stored booking changes only from booked to
\* cancelled, and a booking enters the store with status booked; so no step
\* yields completed or no-show, and none changes a booking that is completed
\* or no-show.
C20_OnlyBookedToCancelled ==
  [][/\ \A b \in 1..Len(bookings) :
          bookings'[b].status # bookings[b].status
            => bookings[b].status = "booked" /\ bookings'[b].status = "cancelled"
     /\ \A b \in (Len(bookings) + 1)..Len(bookings') :
          bookings'[b].status = "booked"]_vars

\* C21: generateSlotsForRange called with from and to equal to the same
\* calendar date succeeds and returns the slots of that date: 16 slots for
\* the rule 09:00-17:00 in slots of 30 minutes on a matching weekday.
C21_SameDateRangeSucceeds ==
  (/\ AnsweredQuery
   /\ Answered.providerId \in DOMAIN providers
   /\ Answered.start.form = "utc"
   /\ Answered.end = Answered.start)
    => /\ response.code = "OK"
       /\ AnsweredConfig = BusinessConfig => Len(Slots) = 16

\* C22: for a provider in UTC with the one rule Monday to Friday
\* 09:00-17:00 in slots of 30 minutes, the query for a single Monday inside
\* notice and horizon, without exception, yields exactly 16 slots, the first
\* 09:00-09:30 and the last 16:30-17:00, none of another date, and none of
\* them booked when the provider has no bookings.
C22_MondayBusinessHours ==
  (/\ AnsweredSlots
   /\ AnsweredConfig = BusinessConfig
   /\ Answered.start.t = 0
   /\ Answered.end.t = 1439)
    => /\ Len(Slots) = 16
       /\ Interval(Slots[1]) = [start |-> 540, end |-> 570]
       /\ Interval(Slots[16]) = [start |-> 990, end |-> 1020]
       /\ \A i \in SlotIndex : DateOf(Slots[i]) = 0
       /\ bookings = <<>> => \A i \in SlotIndex : ~Slots[i].isBooked

\* The answer for that Monday, for a provider without bookings.
C22_Witness ==
  /\ AnsweredSlots
  /\ AnsweredConfig = BusinessConfig
  /\ Answered.start.t = 0
  /\ Answered.end.t = 1439
  /\ bookings = <<>>
  /\ Len(Slots) = 16

\* C23: for a date of the range with an exception available = true over
\* [s, e), whose slots of the exception duration d all pass the notice and
\* horizon filter, the answer holds exactly floor((e - s) / d) slots of that
\* date flagged isException, whatever rules also apply to the date.  (Stated
\* for a provider with rules and a date without blackout.)
C23_ExceptionSlotCount ==
  AnsweredSlots
    => \A day \in AnsweredDates :
         \A k \in 1..Len(AnsweredConfig.exceptions) :
           LET e == AnsweredConfig.exceptions[k]
               candidates == ExceptionCandidates(e, AnsweredConfig, day)
               flagged == {i \in SlotIndex :
                             Slots[i].isException /\ DateOf(Slots[i]) = day}
           IN  (/\ e.date = day /\ e.available
                /\ e.startTime # Null /\ e.endTime # Null
                /\ ~HasBlackout(AnsweredConfig, day)
                /\ Len(AnsweredConfig.recurringRules) > 0
                /\ \A c \in candidates :
                     /\ now + AnsweredConfig.minNoticeMinutes <= c.start
                     /\ c.start <= AnsweredConfig.maxDaysAhead * 1440)
                 => Cardinality(flagged)
                      = (e.endTime - e.startTime) \div ExceptionDuration(AnsweredConfig)

\* An interval lies inside a rule window or an exception window of its
\* provider-local date, and that date has no blackout.
ScheduleCompliant(config, s, e) ==
  LET day == (s + ZoneOffset(config.timezone)) \div 1440
      inWindow(startTime, endTime) ==
        /\ At(day, startTime, config.timezone) <= s
        /\ e <= At(day, endTime, config.timezone)
  IN  /\ ~HasBlackout(config, day)
      /\ \/ \E r \in 1..Len(config.recurringRules) :
              /\ ((day % 7) + 1) \in config.recurringRules[r].daysOfWeek
              /\ inWindow(config.recurringRules[r].startTime,
                          config.recurringRules[r].endTime)
         \/ \E k \in 1..Len(config.exceptions) :
              /\ config.exceptions[k].date = day
              /\ config.exceptions[k].available
              /\ config.exceptions[k].startTime # Null
              /\ config.exceptions[k].endTime # Null
              /\ inWindow(config.exceptions[k].startTime, config.exceptions[k].endTime)

\* C24: createBooking validates provider schedule compliance: a booking is
\* created only for an interval inside a recurring-rule window or an
\* exception window of its provider-local date, on a date without an
\* available = false exception.
C24_ScheduleCompliance ==
  (AnsweredCreate /\ response.code = "CREATED")
    => LET b == bookings[response.booking]
       IN  ScheduleCompliant(providers[b.provider], b.start, b.end)

\* C25: the slot list that computeAvailability returns is sorted ascending
\* by start, across rules, exceptions and dates.
C25_SortedByStart ==
  AnsweredSlots
    => \A i, j \in SlotIndex : i < j => Slots[i].start <= Slots[j].start

\* An answer with slots of two dates in which an exception slot precedes a
\* rule slot of its date, generated before it.
C25_Witness ==
  /\ AnsweredSlots
  /\ \E i, j \in SlotIndex :
       /\ i < j
       /\ Slots[i].isException
       /\ ~Slots[j].isException
       /\ DateOf(Slots[i]) = DateOf(Slots[j])
  /\ \E i, j \in SlotIndex : DateOf(Slots[i]) # DateOf(Slots[j])

\* C26: cancelBooking is a compare-and-swap on the status: a cancel that
\* answers for a booking that is stored as cancelled by then (the other of
\* two concurrent cancels has won) answers CONFLICT, and a cancelledAt once
\* written never changes.
C26_CancelCompareAndSwap ==
  [][\A b \in 1..Len(bookings) :
       bookings[b].status = "cancelled"
         => /\ bookings'[b].cancelledAt = bookings[b].cancelledAt
            /\ \A p \in Procs :
                 (Answers(p) /\ req[p].op = "cancelBooking" /\ req[p].id = b)
                   => response'.code = "CONFLICT"]_vars

(***************************************************************************)
(* Booking the slots of an answer: a client queries the availability and   *)
(* then asks for a booking over exactly one of the returned slots, the     *)
(* clock standing still.                                                   *)
(***************************************************************************)
RefineConfigs == {NoticeConfig, OverlapConfig, ExceptionConfig}

InitRefine ==
  /\ now \in {0} \cup TickSteps
  /\ \E config \in RefineConfigs : providers = [InitialProviders EXCEPT !["p1"] = config]
  /\ bookings \in SlotStores
  /\ pc = [p \in Procs |-> "idle"]
  /\ req = [p \in Procs |-> NoReq]
  /\ doc = [p \in Procs |-> NoDoc]
  /\ accesses = [p \in Procs |-> <<>>]
  /\ response = NoResponse

\* POST /api/bookings with the start and end of a returned slot.
BookSlot(p) ==
  /\ AnsweredSlots
  /\ \E i \in SlotIndex :
       CreateStart(p, MkReq(Answered.providerId, "u1", "utc", Slots[i].start, Slots[i].end))

NextRefine ==
  \/ \E q \in SlotQueries : AvailStart(Client, q)
  \/ StepAvail(Client)
  \/ BookSlot(Client)
  \/ CreateFindProvider(Client)
  \/ CreateFindOverlap(Client)
  \/ CreateInsert(Client)

SpecRefine == InitRefine /\ [][NextRefine]_vars

\* The slots computeAvailability returns for the local date of an instant,
\* computed on the current store at the current now.
SlotsAround(providerId, s) ==
  LET config == providers[providerId]
  IN  generateSlotsForRange(config, s, s, now,
                            fetchBookings(bookings, providerId, config.timezone, s, s))

\* C27: for a fixed now, schedule and set of bookings, a createBooking
\* request with exactly the start and end of a slot that computeAvailability
\* returns is accepted when the slot has isBooked = false and rejected with
\* CONFLICT when it has isBooked = true.
C27_SlotsAreBookable ==
  [][\A p \in Procs :
       (Answers(p) /\ req[p].op = "createBooking")
         => LET slots == SlotsAround(req[p].providerId, req[p].start.t)
            IN  \A i \in 1..Len(slots) :
                  (slots[i].start = req[p].start.t /\ slots[i].end = req[p].end.t)
                    => IF slots[i].isBooked
                         THEN response'.code = "CONFLICT" /\ bookings' = bookings
                         ELSE /\ response'.code = "CREATED"
                              /\ Len(bookings') = Len(bookings) + 1]_vars

\* A slot returned free was booked, returned again, now as booked, and the
\* second request for it is rejected.
C27_Witness ==
  /\ AnsweredCreate
  /\ response.code = "CONFLICT"
  /\ Len(bookings) = 1
  /\ bookings[1].start = Answered.start.t
  /\ bookings[1].end = Answered.end.t
  /\ bookings[1].start # 90
  /\ bookings[1].status = "booked"

\* The last response answers a query of GET /api/schedule/available with
\* slots.
ScheduleAnswered == Answered.op = "scheduleAvailable" /\ response.code = "OK"

\* C28: GET /api/schedule/available emits no slot that ends after the end
\* of its window: every slot is one of the intervals
\* [start + k * d, start + (k + 1) * d) that fit inside a rule window or an
\* exception window of its date, the slots generateSlotsForRange steps
\* through; a trailing remainder is dropped.
C28_ScheduleSlotsFitWindow ==
  ScheduleAnswered
    => \A i \in SlotIndex :
         Interval(Slots[i]) \in RuleCandidatesOn(AnsweredConfig, DateOf(Slots[i]))
                                 \cup ExceptionCandidatesOn(AnsweredConfig, DateOf(Slots[i]))

\* A stored booking of the provider is cancelled and has exactly the
\* interval.
CancelledTwin(providerId, s, e) ==
  \E b \in 1..Len(bookings) :
    /\ bookings[b].provider = providerId
    /\ bookings[b].status = "cancelled"
    /\ bookings[b].start = s
    /\ bookings[b].end = e

\* C29: only booked bookings block: after a cancel, a createBooking
\* request for the same provider and the identical interval that has passed
\* the notice and horizon checks is not rejected for the cancelled booking
\* and is stored when no booked booking overlaps it.
C29_CancelledDoesNotBlock ==
  [][\A p \in Procs :
       (/\ req[p].op = "createBooking"
        /\ pc[p] \in {"findOverlap", "create"}
        /\ pc'[p] # pc[p]
        /\ CancelledTwin(doc[p].provider, doc[p].start, doc[p].end)
        /\ BookedClashes(doc[p].provider, doc[p].start, doc[p].end) = {})
         => /\ pc[p] = "findOverlap" => pc'[p] = "create"
            /\ pc[p] = "create"
                 => /\ response'.code = "CREATED"
                    /\ Len(bookings') = Len(bookings) + 1
                    /\ bookings'[Len(bookings')].status = "booked"]_vars

\* A booking was stored over the interval of an earlier, cancelled booking
\* of the same provider.
C29_Witness ==
  /\ AnsweredCreate
  /\ response.code = "CREATED"
  /\ \E b \in 1..(response.booking - 1) :
       /\ bookings[b].status = "cancelled"
       /\ bookings[b].provider = bookings[response.booking].provider
       /\ bookings[b].start = bookings[response.booking].start
       /\ bookings[b].end = bookings[response.booking].end

\* C30: no operation removes a booking or changes the provider, patient,
\* start or end of a stored booking; a booking changes only by the cancel
\* that names it and succeeds, and only in status and cancelledAt;
\* computeAvailability changes nothing in the booking store or in the
\* provider's schedule, and neither createBooking nor cancelBooking changes
\* a schedule.
C30_Frame ==
  [][/\ Len(bookings') >= Len(bookings)
     /\ \A b \in 1..Len(bookings) :
          /\ bookings'[b].provider = bookings[b].provider
          /\ bookings'[b].patient = bookings[b].patient
          /\ bookings'[b].start = bookings[b].start
          /\ bookings'[b].end = bookings[b].end
          /\ bookings'[b] # bookings[b]
               => \E p \in Procs :
                    /\ Answers(p)
                    /\ req[p].op = "cancelBooking"
                    /\ req[p].id = b
                    /\ response'.code = "OK"
     /\ (\/ \E p \in Procs : "computeAvailability" \in {req[p].op, req'[p].op}
         \/ response'.request.op = "computeAvailability")
          => bookings' = bookings /\ providers' = providers
     /\ (\E p \in Procs : pc'[p] # pc[p]) => providers' = providers]_vars

\* A cancel has succeeded on one of two stored bookings: the other is
\* still booked and both are still stored.
C30_Witness ==
  /\ AnsweredCancel
  /\ response.code = "OK"
  /\ Len(bookings) = 2
  /\ bookings[response.booking].status = "cancelled"
  /\ \E b \in 1..Len(bookings) : b # response.booking /\ bookings[b].status = "booked"

====
